---- MODULE Spec2Model ----
(***************************************************************************)
(* Model of src/hgcl.py: the k-NN hypergraph builder                       *)
(* (build_knn_hypergraph) and the training loop with best-state tracking,  *)
(* early stopping and the post-loop fallback.                              *)
(*                                                                         *)
(* Floats are modelled by integers.  Accuracies are the number of correct  *)
(* predictions (0..MaxVal, 0..MaxTest).  Losses are IEEE values: the       *)
(* finite ones 0..MaxLoss, -infinity, +infinity and NaN, compared with     *)
(* FloatLT.                                                                *)
(* An embedding is identified by the epoch that computed it and carries    *)
(* what the deterministic linear probe (evaluate) returns for it on the    *)
(* validation and on the test mask.                                        *)
(***************************************************************************)
EXTENDS Integers, Sequences, FiniteSets, TLC

\* ---- bounds -------------------------------------------------------------
MaxEpochs == 3
MaxPatience == 2
MaxVal == 1
MaxTest == 1
MaxLoss == 1

\* ---- IEEE loss values ---------------------------------------------------
NegInf == 0 - 1
PosInf == MaxLoss + 1
NaN == MaxLoss + 2
Losses == {NegInf} \cup (0..MaxLoss) \cup {PosInf, NaN}

\* a < b on floats: every comparison with NaN is false (lines 295, 301)
FloatLT(a, b) == a # NaN /\ b # NaN /\ a < b

IsFinite(a) == a # NaN /\ a # PosInf /\ a # NegInf

\* ---- embeddings and the linear probe -------------------------------------
\* best_emb = None (line 263)
None == [id |-> 0, val |-> 0, test |-> 0]

\* the embeddings the evaluation forward pass of epoch e can return
\* (lines 279-282)
Embeddings(e) == [id : {e}, val : 0..MaxVal, test : 0..MaxTest]

\* evaluate(emb, data, mask), lines 233-240: a deterministic function of the
\* embedding and the mask
evaluate(emb, mask) == IF mask = "val" THEN emb.val ELSE emb.test

VARIABLES
  NUM_EPOCHS,        \* line 15, a configuration value fixed for the run
  PATIENCE,          \* line 27, a configuration value fixed for the run
  epoch,             \* the loop variable of line 269 (0 before the loop)
  loss,              \* loss.item() of the current epoch (line 273)
  val_emb,           \* line 282
  best_val_acc,      \* line 262
  best_emb,          \* line 263
  patience_counter,  \* line 264
  test_acc,          \* line 265
  best_loss,         \* line 266
  tpc,               \* "loop", "after" (loop left), "done" (script ended)
  early_stopped,     \* the break of line 316 was taken
  fallback,          \* the branch of lines 319-321 was taken
  saved,             \* the array written by np.save (line 327)
  max_val_seen,      \* history: the largest val_acc computed so far
  first_emb,         \* history: the val_emb of epoch 1
  degenerate,        \* history: every epoch so far had val_acc = 0 and a
                     \* loss that is not below +infinity
  x,                 \* the feature matrix, a sequence of rows (line 37)
  k,                 \* the neighbour count (line 37)
  BATCH_SIZE_KNN,    \* line 29, per run of the builder
  batch_start,       \* the loop variable i of line 42, per run
  indices,           \* the list of batch_indices tensors (line 40), per run
  kpc,               \* "idle", "batch", "cat", "done" or "error", per run
  result             \* the returned incidence list (line 65), per run

tvars == <<NUM_EPOCHS, PATIENCE, epoch, loss, val_emb, best_val_acc, best_emb,
           patience_counter, test_acc, best_loss, tpc, early_stopped,
           fallback, saved, max_val_seen, first_emb, degenerate>>

kvars == <<x, k, BATCH_SIZE_KNN, batch_start, indices, kpc, result>>

vars == <<tvars, kvars>>

\* ======================= build_knn_hypergraph ==========================
\* bounds of the builder's inputs
MaxN == 3
MaxK == 3
MaxB == 3

\* two calls of the builder on the same x and k: call 1 with any batch
\* size, call 2 with the batch size that takes the whole matrix in one batch
Runs == {1, 2}

\* the rows a feature matrix is made of: non-negative, non-zero features
\* (the rows of the data set are bag-of-words counts).  Any two different
\* rows have a different direction, and every row sees the other two at
\* two different similarities, so similarities tie exactly where a matrix
\* repeats a row
FeatureRows == {<<1, 0>>, <<2, 1>>, <<1, 3>>}

\* the positions of m that hold the same row
EqualPairs(m) ==
  {pq \in (1..Len(m)) \X (1..Len(m)) : pq[1] < pq[2] /\ m[pq[1]] = m[pq[2]]}

\* the matrices without equal rows and those with a single pair of equal
\* rows: one pair is what it takes to tie similarities, further equal rows
\* only multiply the orders topk can choose from
Matrices ==
  {m \in UNION {[1..n -> FeatureRows] : n \in 0..MaxN} :
     \A pq, rs \in EqualPairs(m) : pq = rs}

Min(a, b) == IF a < b THEN a ELSE b

\* num_nodes = x.size(0), line 39
num_nodes == Len(x)

RECURSIVE DotTo(_, _, _)
DotTo(a, b, n) == IF n = 0 THEN 0 ELSE a[n] * b[n] + DotTo(a, b, n - 1)

Dot(a, b) == DotTo(a, b, Len(a))

\* the squared norm F.cosine_similarity divides by; a zero norm is clamped
\* to eps, which leaves the similarity at 0 because the dot product is 0
SqNorm(a) == IF Dot(a, a) = 0 THEN 1 ELSE Dot(a, a)

\* sim_batch[row, a] >= sim_batch[row, b] (lines 45-49), exactly: with
\* non-negative features cos(row, a) >= cos(row, b) iff
\* dot(row,a)^2 * |b|^2 >= dot(row,b)^2 * |a|^2
SimGE(row, a, b) ==
  Dot(x[row], x[a]) * Dot(x[row], x[a]) * SqNorm(x[b])
    >= Dot(x[row], x[b]) * Dot(x[row], x[b]) * SqNorm(x[a])

\* the ways to pick the n most similar of the columns in cols, one after
\* the other, each a column that none of the remaining ones beats
RECURSIVE TopKOf(_, _, _)
TopKOf(row, cols, n) ==
  IF n = 0 THEN {<<>>}
  ELSE UNION {{<<c>> \o rest : rest \in TopKOf(row, cols \ {c}, n - 1)} :
                c \in {a \in cols : \A b \in cols : SimGE(row, a, b)}}

\* torch.topk(sim_batch, n).indices for one row (line 51): n distinct
\* columns in non-increasing order of similarity that no left-out column
\* beats; the order among equal similarities is not specified, so every
\* such sequence is a possible result
TopK(row, n) == TopKOf(row, 1..num_nodes, n)

\* topk.indices[:, 1:], line 52
DropFirst(s) == [p \in 1..(Len(s) - 1) |-> s[p + 1]]

\* the rows of batch = x[i:i+BATCH_SIZE_KNN], line 43 (nodes are numbered
\* from 1 here, from 0 in the code)
BatchRowsLocal(r) ==
  1..Min(BATCH_SIZE_KNN[r], num_nodes - batch_start[r])

BatchRows(r) ==
  (batch_start[r] + 1)..Min(batch_start[r] + BATCH_SIZE_KNN[r], num_nodes)

\* the set as the sequence of its elements in increasing order
RECURSIVE Ascending(_)
Ascending(S) ==
  IF S = {} THEN <<>>
  ELSE LET m == CHOOSE a \in S : \A b \in S : a <= b
       IN <<m>> \o Ascending(S \ {m})

\* torch.cat(indices, dim=0), line 55
RECURSIVE Cat(_)
Cat(list) == IF list = <<>> THEN <<>> ELSE Head(list) \o Cat(Tail(list))

\* the pairs of one node, lines 60-63
RowPairs(node, neighbors) ==
  [p \in 1..Len(neighbors) |-> <<node, neighbors[p]>>]

\* the loops of lines 59-63 over the first n rows of the concatenated tensor
RECURSIVE PairsTo(_, _)
PairsTo(all, n) ==
  IF n = 0 THEN <<>> ELSE PairsTo(all, n - 1) \o RowPairs(n, all[n])

\* torch.topk raises when it is asked for more columns than the row has
TopKOutOfRange(n) == n > num_nodes

\* the values topk.indices[:, 1:] can take for the rows in the sequence
\* rows (lines 51-52): an independent topk result for each row
RECURSIVE BatchIndices(_, _)
BatchIndices(rows, n) ==
  IF rows = <<>> THEN {<<>>}
  ELSE {<<DropFirst(s)>> \o rest :
          s \in TopK(Head(rows), n), rest \in BatchIndices(Tail(rows), n)}

\* the second call of the builder is made after the first has returned
Called(r) == r = 1 \/ kpc[1] \in {"done", "error"}

\* lines 43-53 with topk of size n: one batch_indices tensor is appended
TakeBatch(r, n) ==
  /\ \E batch_indices \in BatchIndices(Ascending(BatchRows(r)), n) :
       indices' = [indices EXCEPT ![r] = Append(@, batch_indices)]
  /\ batch_start' =
       [batch_start EXCEPT ![r] = @ + BATCH_SIZE_KNN[r]]
  /\ kpc' = [kpc EXCEPT ![r] =
               IF batch_start'[r] < num_nodes THEN "batch" ELSE "cat"]
  /\ UNCHANGED <<x, k, BATCH_SIZE_KNN, result>>

\* the exception leaves the function: nothing is returned
Raise(r) ==
  /\ kpc' = [kpc EXCEPT ![r] = "error"]
  /\ UNCHANGED <<x, k, BATCH_SIZE_KNN, batch_start, indices, result>>

KnnBatchClamped(r) ==
  /\ Called(r)
  /\ kpc[r] = "batch"
  /\ TakeBatch(r, Min(k + 1, num_nodes))
  /\ UNCHANGED tvars

\* one iteration of the loop of lines 42-53
KnnBatch(r) ==
  /\ Called(r)
  /\ kpc[r] = "batch"
  /\ IF TopKOutOfRange(k + 1) THEN Raise(r) ELSE TakeBatch(r, k + 1)
  /\ UNCHANGED tvars

\* lines 55-65: torch.cat (which raises on an empty list), the pair lists
\* and the return
KnnEmit(r) ==
  /\ Called(r)
  /\ kpc[r] = "cat"
  /\ IF indices[r] = <<>>
       THEN Raise(r)
       ELSE /\ result' = [result EXCEPT
                            ![r] = PairsTo(Cat(indices[r]), num_nodes)]
            /\ kpc' = [kpc EXCEPT ![r] = "done"]
            /\ UNCHANGED <<x, k, BATCH_SIZE_KNN, batch_start, indices>>
  /\ UNCHANGED tvars

\* the builder's variables while only the training loop is looked at
KnnIdle ==
  /\ x = <<>>
  /\ k = 1
  /\ BATCH_SIZE_KNN = [r \in Runs |-> 1]
  /\ batch_start = [r \in Runs |-> 0]
  /\ indices = [r \in Runs |-> <<>>]
  /\ kpc = [r \in Runs |-> "idle"]
  /\ result = [r \in Runs |-> <<>>]

\* =========================== training loop ==============================
\* line 266
InitialBestLossSentinel == MaxLoss

InitialBestLoss == PosInf

\* lines 261-267, with the configuration drawn from the bounded sets
TrainStart ==
  /\ epoch = 0
  /\ loss = 0
  /\ val_emb = None
  /\ best_val_acc = 0
  /\ best_emb = None
  /\ patience_counter = 0
  /\ test_acc = 0
  /\ best_loss = InitialBestLoss
  /\ tpc = "loop"
  /\ early_stopped = FALSE
  /\ fallback = FALSE
  /\ saved = None
  /\ max_val_seen = 0
  /\ first_emb = None
  /\ degenerate = TRUE

InitTrain ==
  /\ NUM_EPOCHS \in 1..MaxEpochs
  /\ PATIENCE \in 1..MaxPatience
  /\ TrainStart
  /\ KnnIdle

\* the call of line 249, with the inputs drawn from the bounded sets; the
\* training loop has not started
InitKnn ==
  /\ x \in Matrices
  /\ k \in 1..MaxK
  /\ BATCH_SIZE_KNN \in
       {b \in [Runs -> 1..(MaxB + MaxN)] :
          b[1] <= MaxB /\ b[2] = IF Len(x) = 0 THEN 1 ELSE Len(x)}
  /\ batch_start = [r \in Runs |-> 0]
  /\ indices = [r \in Runs |-> <<>>]
  /\ kpc = [r \in Runs |-> IF 0 < num_nodes THEN "batch" ELSE "cat"]
  /\ result = [r \in Runs |-> <<>>]
  /\ NUM_EPOCHS = 1
  /\ PATIENCE = 1
  /\ TrainStart

\* the condition of line 295
ImprovesOrEqual(val_acc) == val_acc >= best_val_acc

Improves(val_acc) == val_acc > best_val_acc

\* the condition of line 301
TieBreaksOnLossOnly(val_acc, l) == FloatLT(l, best_loss)

TieBreaks(val_acc, l) == val_acc = best_val_acc /\ FloatLT(l, best_loss)

\* the condition of line 314
ShouldStopLate(counter) == counter > PATIENCE

ShouldStop(counter) == counter >= PATIENCE

\* lines 296-300
ImprovedBranch(e, l) ==
  /\ best_val_acc' = evaluate(e, "val")
  /\ best_emb' = e
  /\ patience_counter' = 0
  /\ test_acc' = evaluate(e, "test")
  /\ best_loss' = l

\* lines 303-306
TieBranchStaleTest(e, l) ==
  /\ best_emb' = e
  /\ best_loss' = l
  /\ patience_counter' = 0
  /\ UNCHANGED <<best_val_acc, test_acc>>

TieBranch(e, l) ==
  /\ best_emb' = e
  /\ test_acc' = evaluate(e, "test")
  /\ best_loss' = l
  /\ patience_counter' = 0
  /\ UNCHANGED best_val_acc

\* line 308
StagnantBranchKeepsCounter ==
  /\ UNCHANGED <<patience_counter, best_val_acc, best_emb, test_acc,
                 best_loss>>

StagnantBranch ==
  /\ patience_counter' = patience_counter + 1
  /\ UNCHANGED <<best_val_acc, best_emb, test_acc, best_loss>>

\* one iteration of the loop of lines 269-316
Epoch ==
  /\ tpc = "loop"
  /\ epoch < NUM_EPOCHS
  /\ epoch' = epoch + 1
  /\ \E l \in Losses, e \in Embeddings(epoch + 1) :
       LET val_acc == evaluate(e, "val") IN
       /\ loss' = l
       /\ val_emb' = e
       /\ IF Improves(val_acc) THEN ImprovedBranch(e, l)
          ELSE IF TieBreaks(val_acc, l) THEN TieBranch(e, l)
          ELSE StagnantBranch
       /\ max_val_seen' = IF val_acc > max_val_seen THEN val_acc
                          ELSE max_val_seen
       /\ first_emb' = IF epoch = 0 THEN e ELSE first_emb
       /\ degenerate' = (degenerate /\ val_acc = 0 /\ ~(l # NaN /\ l < PosInf))
  /\ IF ShouldStop(patience_counter')
       THEN tpc' = "after" /\ early_stopped' = TRUE
       ELSE /\ tpc' = IF epoch' = NUM_EPOCHS THEN "after" ELSE "loop"
            /\ UNCHANGED early_stopped
  /\ UNCHANGED <<NUM_EPOCHS, PATIENCE, fallback, saved>>
  /\ UNCHANGED kvars

\* lines 319-321
FallbackFirst ==
  /\ best_emb' = first_emb
  /\ test_acc' = evaluate(first_emb, "test")
  /\ fallback' = TRUE

Fallback ==
  /\ best_emb' = val_emb
  /\ test_acc' = evaluate(val_emb, "test")
  /\ fallback' = TRUE

\* lines 319-328: the fallback, the final report and np.save
Finish ==
  /\ tpc = "after"
  /\ IF best_emb = None
       THEN Fallback
       ELSE UNCHANGED <<best_emb, test_acc, fallback>>
  /\ saved' = best_emb'
  /\ tpc' = "done"
  /\ UNCHANGED <<NUM_EPOCHS, PATIENCE, epoch, loss, val_emb, best_val_acc,
                 patience_counter, best_loss, early_stopped, max_val_seen,
                 first_emb, degenerate>>
  /\ UNCHANGED kvars

NextTrain == Epoch \/ Finish

SpecTrain == InitTrain /\ [][NextTrain]_vars

\* the script is one thread that runs to its end
SpecTrainFair == SpecTrain /\ WF_vars(NextTrain)

NextKnn == \E r \in Runs : KnnBatch(r) \/ KnnEmit(r)

SpecKnn == InitKnn /\ [][NextKnn]_vars

\* ============================== claims ==================================

\* C1: in every epoch the best state is updated (best embedding, best
\* validation accuracy, best loss and test accuracy taken from this epoch,
\* stagnation counter reset to 0) if and only if the epoch's validation
\* accuracy is strictly greater than the best so far, or equal to it with a
\* training loss strictly below the recorded best loss; otherwise the counter
\* grows by exactly 1 and the best state is left unchanged.
C1_BestUpdateRule ==
  [][epoch' = epoch + 1 =>
       LET val_acc == evaluate(val_emb', "val")
           update == \/ val_acc > best_val_acc
                     \/ val_acc = best_val_acc /\ FloatLT(loss', best_loss)
       IN /\ update => /\ best_emb' = val_emb'
                       /\ best_val_acc' = val_acc
                       /\ best_loss' = loss'
                       /\ test_acc' = evaluate(val_emb', "test")
                       /\ patience_counter' = 0
          /\ ~update => /\ patience_counter' = patience_counter + 1
                        /\ UNCHANGED <<best_emb, best_val_acc, best_loss,
                                       test_acc>>]_vars

\* an epoch after the first took the tie-break branch
C1_Witness ==
  /\ epoch >= 2
  /\ best_emb.id = epoch
  /\ first_emb.val = best_val_acc
  /\ patience_counter = 0

\* C2: the best validation accuracy never decreases, equals the maximum
\* validation accuracy observed so far, and a stored best embedding has
\* exactly that validation accuracy.
C2_BestNeverRegresses ==
  /\ [](/\ best_val_acc = max_val_seen
        /\ best_emb # None => evaluate(best_emb, "val") = max_val_seen)
  /\ [][best_val_acc' >= best_val_acc]_vars

\* an epoch scored below the running maximum and the best embedding stayed
C2_Witness ==
  /\ epoch >= 2
  /\ best_emb # None
  /\ best_emb.id < epoch
  /\ evaluate(val_emb, "val") < best_val_acc

\* C3 as stated: with patience 1, an epoch 2 whose validation accuracy does
\* not improve on that of epoch 1 ends with the early-stop exit, whatever the
\* training losses are.
C3_StopsAtEpoch2 ==
  [][(/\ PATIENCE = 1
      /\ epoch = 1 /\ epoch' = 2
      /\ evaluate(val_emb', "val") <= evaluate(val_emb, "val"))
       => (tpc' = "after" /\ early_stopped')]_vars

\* C3 amended: with patience 1, if epoch 1 records a best-state update and
\* the validation accuracy of epoch 2 is not higher than that of epoch 1, the
\* early-stop exit is taken at the end of epoch 2 unless epoch 2 ties the
\* validation accuracy of epoch 1 with a strictly lower training loss, in
\* which case the counter is reset and the exit is not taken; if epoch 1
\* records no update, the exit is taken at the end of epoch 1.
C3_StopsAtEpoch2UnlessTieBreak ==
  [][PATIENCE = 1 =>
       LET v1 == evaluate(val_emb, "val")
           v2 == evaluate(val_emb', "val")
           lower == v2 = v1 /\ FloatLT(loss', loss)
       IN /\ (epoch = 1 /\ epoch' = 2 /\ best_emb = val_emb /\ v2 <= v1)
             => /\ ~lower => (tpc' = "after" /\ early_stopped')
                /\ lower => (~early_stopped' /\ patience_counter' = 0)
          /\ (epoch = 0 /\ epoch' = 1 /\ best_emb' = None)
             => (tpc' = "after" /\ early_stopped')]_vars

\* patience 1, epoch 2 tied epoch 1 without a lower loss and the loop stopped
\* there with epochs left
C3_Witness ==
  /\ PATIENCE = 1
  /\ NUM_EPOCHS >= 3
  /\ epoch = 2
  /\ early_stopped
  /\ best_emb.id = 1
  /\ evaluate(val_emb, "val") = best_val_acc

\* C7 as stated: when the fallback is taken, the best embedding is the
\* validation embedding of epoch 1 and the test accuracy is evaluated on it.
C7_FallbackUsesFirstEmbedding ==
  fallback => /\ best_emb = first_emb
              /\ test_acc = evaluate(first_emb, "test")

\* C7 amended: when the fallback is taken, the best embedding is the
\* validation embedding of the last executed epoch, the test accuracy is
\* evaluated on it and it is the embedding that is saved.
C7_FallbackUsesLastEmbedding ==
  fallback => /\ best_emb.id = epoch
              /\ best_emb = val_emb
              /\ test_acc = evaluate(val_emb, "test")
              /\ saved = val_emb

\* the fallback was taken after more than one epoch
C7_Witness ==
  /\ fallback
  /\ epoch >= 2
  /\ first_emb # val_emb
  /\ tpc = "done"

\* C8: whenever a best embedding is stored, and when the results are
\* reported and the embedding is saved, the test accuracy is the evaluator's
\* test accuracy of the stored best embedding.
C8_TestAccOfBestEmbedding ==
  /\ best_emb # None => test_acc = evaluate(best_emb, "test")
  /\ tpc = "done" => /\ best_emb # None
                     /\ saved = best_emb
                     /\ test_acc = evaluate(saved, "test")

\* a tie-break update replaced the embedding of epoch 1 by one with another
\* test accuracy
C8_Witness ==
  /\ epoch >= 2
  /\ best_emb.id = epoch
  /\ first_emb.val = best_val_acc
  /\ evaluate(first_emb, "test") # test_acc

\* C9: the loop ends after at most NUM_EPOCHS epochs; it ends earlier only
\* by early stopping, which happens at the end of the first epoch at which
\* the stagnation counter has reached PATIENCE (PATIENCE epochs in a row
\* without a best-state update); the counter is always in 0..PATIENCE.
C9_Terminates ==
  /\ [](/\ epoch <= NUM_EPOCHS
        /\ patience_counter \in 0..PATIENCE
        /\ tpc = "loop" => /\ patience_counter < PATIENCE
                           /\ epoch - best_emb.id < PATIENCE
                           /\ epoch < NUM_EPOCHS
                           /\ ~early_stopped
        /\ (tpc # "loop" /\ epoch < NUM_EPOCHS) => early_stopped
        /\ early_stopped => patience_counter = PATIENCE
        /\ (tpc = "after" /\ early_stopped)
             => best_emb.id = epoch - PATIENCE)
  /\ <>(tpc = "done")

\* the loop was stopped early after a best-state update, with epochs left
C9_Witness ==
  /\ tpc = "done"
  /\ early_stopped
  /\ epoch < NUM_EPOCHS
  /\ epoch > PATIENCE

\* C10: epoch 1 records a best-state update whenever its training loss is
\* finite, also with validation accuracy 0; the best embedding is unset at
\* loop exit, and the fallback taken, only if every executed epoch had
\* validation accuracy 0 and a loss not below +infinity.
C10_FallbackOnlyWhenDegenerate ==
  /\ [][(epoch = 0 /\ epoch' = 1 /\ IsFinite(loss'))
          => (best_emb' = val_emb' /\ patience_counter' = 0)]_vars
  /\ []((fallback \/ (tpc # "loop" /\ best_emb = None)) => degenerate)

\* epoch 1 had validation accuracy 0 and a finite loss and was recorded
C10_Witness ==
  /\ epoch >= 1
  /\ evaluate(first_emb, "val") = 0
  /\ best_emb = first_emb
  /\ best_val_acc = 0
  /\ IsFinite(best_loss)

\* C4 as stated: a returned incidence list has exactly N*k pairs, exactly k
\* per node, and no pair of a node with itself.
C4_ExactlyKPerNodeNoSelf ==
  \A r \in Runs :
    kpc[r] = "done" =>
      /\ Len(result[r]) = num_nodes * k
      /\ \A node \in 1..num_nodes :
           Cardinality({p \in 1..Len(result[r]) : result[r][p][1] = node}) = k
      /\ \A p \in 1..Len(result[r]) : result[r][p][1] # result[r][p][2]

Above(row, a) ==
  Cardinality({c \in 1..num_nodes : ~SimGE(row, a, c)})

\* no row leaves topk a choice: two columns of equal similarity are both
\* outside the k+1 most similar ones
NoTies ==
  \A row, a, b \in 1..num_nodes :
    (a # b /\ SimGE(row, a, b) /\ SimGE(row, b, a))
      => Above(row, a) >= k + 1

C6_ErrorWhenKTooLarge ==
  /\ [](k >= num_nodes =>
          \A r \in Runs : /\ kpc[r] \in {"batch", "cat", "error"}
                          /\ result[r] = <<>>
                          /\ indices[r] = <<>>)
  /\ [][k >= num_nodes =>
          \A r \in Runs : kpc'[r] # kpc[r] => kpc'[r] = "error"]_vars

\* both calls with k >= N on a matrix with rows ended in the error
C6_Witness ==
  /\ num_nodes >= 1
  /\ k >= num_nodes
  /\ kpc[1] = "error"
  /\ kpc[2] = "error"

====
